---- MODULE Spec2Model ----
(***************************************************************************)
(* The Orbitron planet AI (src/src/ai/orbitron.rs) as a state machine.     *)
(*                                                                         *)
(* One action per PlanetAI handler.  A handler is an operator from the     *)
(* planet state (and the generator / combinator configuration) to the      *)
(* state it leaves and the value it returns; the action applies it and     *)
(* records the handled message and the returned value.  The planet state,  *)
(* the generator and the combinator belong to the common_game crate: the   *)
(* operations the handlers call on them are modelled from the interface    *)
(* the specification gives for them.  Log records are not modelled: no     *)
(* handler reads them back.                                                *)
(***************************************************************************)
EXTENDS Integers, Sequences, FiniteSets, TLC

(***************************************************************************)
(* Bounds and configurations                                               *)
(***************************************************************************)

\* The largest number of energy cells of a planet state handed to the AI.
MaxCells == 2

\* Planet identities: the ones lib.rs creates planets with.
PlanetIds == {1, 42}

BasicResourceType == {"Oxygen", "Hydrogen", "Carbon", "Silicon"}

ComplexResourceType == {"Diamond", "Water", "Life", "Robot", "Dolphin", "AIPartner"}

\* gen_rules / comb_rules of create_planet in lib.rs
LibGenRules == {"Hydrogen", "Oxygen"}

LibCombRules == {"Water"}

\* gen_rules / comb_rules of create_planet in main.rs
MainGenRules == {"Hydrogen", "Oxygen", "Carbon", "Silicon"}

MainCombRules == {"Water"}

\* The two typed inputs each ComplexResourceRequest variant carries.
RequestInputs(variant) ==
    CASE variant = "Water"     -> <<"Hydrogen", "Oxygen">>
      [] variant = "Diamond"   -> <<"Carbon", "Carbon">>
      [] variant = "Life"      -> <<"Water", "Carbon">>
      [] variant = "Robot"     -> <<"Silicon", "Life">>
      [] variant = "Dolphin"   -> <<"Water", "Life">>
      [] variant = "AIPartner" -> <<"Robot", "Diamond">>

ComplexResourceRequest ==
    { [variant |-> v, r1 |-> RequestInputs(v)[1], r2 |-> RequestInputs(v)[2]] :
        v \in ComplexResourceType }

(***************************************************************************)
(* Resource conversions                                                    *)
(***************************************************************************)

to_basic(r) == [class |-> "BasicResource", resource |-> r]

to_complex(r) == [class |-> "ComplexResource", resource |-> r]

to_generic(r) ==
    [class |-> "GenericResource",
     of    |-> IF r \in BasicResourceType THEN "BasicResources" ELSE "ComplexResources",
     resource |-> r]

\* format!("{other:?}"): the variant's name followed by its two fields
Debug(req) == <<req.variant, req.r1, req.r2>>

(***************************************************************************)
(* Planet state, generator and combinator: the operations the AI calls     *)
(***************************************************************************)

\* Option<T> is a set with at most one element.
None == {}

Some(x) == {x}

CellIndexes(st) == DOMAIN st.energy_cells

Min(S) == CHOOSE x \in S : \A y \in S : x <= y

\* PlanetState of a planet with n cells: all cells empty, no rocket
NewPlanetState(id, n, can_have_rocket) ==
    [id |-> id,
     energy_cells |-> [i \in 0 .. (n - 1) |-> FALSE],
     rocket |-> FALSE,
     can_have_rocket |-> can_have_rocket]

\* the first charged cell, in index order
full_cell(st) ==
    LET charged == {i \in CellIndexes(st) : st.energy_cells[i]}
    IN  IF charged = {} THEN None ELSE Some(Min(charged))

\* the first empty cell, in index order
empty_cell(st) ==
    LET empty == {i \in CellIndexes(st) : ~st.energy_cells[i]}
    IN  IF empty = {} THEN None ELSE Some(Min(empty))

Discharge(st, i) == [st EXCEPT !.energy_cells[i] = FALSE]

\* charge_cell: charges the first empty cell; gives the sunray back if none
charge_cell(st) ==
    LET cell == empty_cell(st)
    IN  IF cell = None
        THEN [state |-> st, ret |-> Some("Sunray")]
        ELSE [state |-> [st EXCEPT !.energy_cells[Min(cell)] = TRUE], ret |-> None]

has_rocket(st) == st.rocket

\* build_rocket(i): refused on a type without rockets, with a rocket
\* already in the slot, or on an uncharged cell i
build_rocket(st, i) ==
    IF ~st.can_have_rocket \/ st.rocket
       \/ i \notin CellIndexes(st) \/ ~st.energy_cells[i]
    THEN [state |-> st, ok |-> FALSE]
    ELSE [state |-> [Discharge(st, i) EXCEPT !.rocket = TRUE], ok |-> TRUE]

take_rocket(st) ==
    [state |-> [st EXCEPT !.rocket = FALSE],
     ret   |-> IF st.rocket THEN Some("Rocket") ELSE None]

\* to_dummy: the detached copy of the externally visible state
to_dummy(st) ==
    [id |-> st.id, energy_cells |-> st.energy_cells, has_rocket |-> st.rocket]

\* Generator::make_<basic>: the recipe must be enabled and the cell charged;
\* success discharges the cell, failure leaves it
make_basic(gen, st, i, resource) ==
    IF resource \in gen /\ st.energy_cells[i]
    THEN [state |-> Discharge(st, i), ok |-> TRUE]
    ELSE [state |-> st, ok |-> FALSE]

\* Combinator::make_water: as make_basic; failure gives the inputs back
make_water(comb, st, i, r1, r2) ==
    IF "Water" \in comb /\ st.energy_cells[i]
    THEN [state |-> Discharge(st, i), ok |-> TRUE, r1 |-> r1, r2 |-> r2,
          err |-> <<>>]
    ELSE [state |-> st, ok |-> FALSE, r1 |-> r1, r2 |-> r2,
          err |-> <<"combinator error">>]

ChargedCount(st) == Cardinality({i \in CellIndexes(st) : st.energy_cells[i]})

(***************************************************************************)
(* The handlers of impl PlanetAI for Orbitron                              *)
(*                                                                         *)
(* Each gives the state it leaves, the value it returns and the set of     *)
(* state-changing or recipe operations it called on its collaborators.     *)
(***************************************************************************)

NoResponse == [kind |-> "None"]

\* a handle_sunray that charges every empty cell with the one sunray
handle_sunray_ChargesAll(st) ==
    [state |-> [st EXCEPT !.energy_cells = [i \in CellIndexes(st) |-> TRUE]],
     response |-> NoResponse,
     calls |-> {"charge_cell"}]

\* handle_sunray: returns nothing, whatever charge_cell answers
handle_sunray(st) ==
    [state |-> charge_cell(st).state, response |-> NoResponse,
     calls |-> {"charge_cell"}]

\* a handle_internal_state_req that answers with the snapshot of a newly
\* made planet state instead of state.to_dummy()
handle_internal_state_req_Fresh(st) ==
    [state |-> st,
     response |-> [kind |-> "DummyPlanetState",
                   dummy |-> to_dummy(NewPlanetState(st.id, Cardinality(CellIndexes(st)),
                                                     st.can_have_rocket))],
     calls |-> {}]

handle_internal_state_req(st) ==
    [state |-> st,
     response |-> [kind |-> "DummyPlanetState", dummy |-> to_dummy(st)],
     calls |-> {}]

\* a SupportedResourceRequest arm that lists the types the generate arm
\* matches on instead of asking the generator
SupportedResource_Hardcoded(st, gen) ==
    [state |-> st,
     response |-> [kind |-> "SupportedResourceResponse",
                   resource_list |-> {"Hydrogen", "Oxygen"}],
     calls |-> {}]

\* SupportedResourceRequest arm
SupportedResource(st, gen) ==
    [state |-> st,
     response |-> [kind |-> "SupportedResourceResponse", resource_list |-> gen],
     calls |-> {}]

\* SupportedCombinationRequest arm
SupportedCombination(st, comb) ==
    [state |-> st,
     response |-> [kind |-> "SupportedCombinationResponse",
                   combination_list |-> comb],
     calls |-> {}]

GenerateResponse(made, resource) ==
    [kind |-> "GenerateResourceResponse",
     resource |-> IF made THEN Some(to_basic(resource)) ELSE None]

\* a GenerateResourceRequest arm that discharges the located cell before it
\* looks at the requested type
GenerateResource_DischargesFirst(st, gen, resource) ==
    LET cell == full_cell(st)
        made == cell /= None /\ resource \in {"Hydrogen", "Oxygen"} /\ resource \in gen
    IN  [state |-> IF cell /= None THEN Discharge(st, Min(cell)) ELSE st,
         response |-> GenerateResponse(made, resource),
         calls |-> IF cell /= None THEN {"generator"} ELSE {}]

\* a GenerateResourceRequest arm that hands out the resource and leaves the
\* cell it was made from charged
GenerateResource_KeepsCharge(st, gen, resource) ==
    LET cell == full_cell(st)
        call == cell /= None /\ resource \in {"Hydrogen", "Oxygen"}
        made == IF call
                THEN make_basic(gen, st, Min(cell), resource)
                ELSE [state |-> st, ok |-> FALSE]
    IN  [state |-> st,
         response |-> GenerateResponse(made.ok, resource),
         calls |-> IF call THEN {"generator"} ELSE {}]

\* a GenerateResourceRequest arm whose match on the requested type takes the
\* `_ => None` arm for every type
GenerateResource_NeverMakes(st, gen, resource) ==
    [state |-> st,
     response |-> GenerateResponse(FALSE, resource),
     calls |-> {}]

\* a GenerateResourceRequest arm that does not look for a charged cell
\* before it makes the resource
GenerateResource_SkipsCellCheck(st, gen, resource) ==
    LET cell == full_cell(st)
        made == resource \in {"Hydrogen", "Oxygen"} /\ resource \in gen
    IN  [state |-> IF made /\ cell /= None THEN Discharge(st, Min(cell)) ELSE st,
         response |-> GenerateResponse(made, resource),
         calls |-> IF made THEN {"generator"} ELSE {}]

\* GenerateResourceRequest arm
GenerateResource(st, gen, resource) ==
    LET cell == full_cell(st)
        call == cell /= None /\ resource \in {"Hydrogen", "Oxygen"}
        made == IF call
                THEN make_basic(gen, st, Min(cell), resource)
                ELSE [state |-> st, ok |-> FALSE]
    IN  [state |-> made.state,
         response |-> GenerateResponse(made.ok, resource),
         calls |-> IF call THEN {"generator"} ELSE {}]

NoCellReason == <<"No charged energy cell found">>

\* format!("There isn't a recipe for {variant_name:?}")
NoRecipeReason(req) == <<"There isn't a recipe for ">> \o Debug(req)

CombineFailure(reason, r1, r2) ==
    [kind |-> "CombineResourceResponse", ok |-> FALSE, reason |-> reason,
     r1 |-> r1, r2 |-> r2]

CombineSuccess(r) ==
    [kind |-> "CombineResourceResponse", ok |-> TRUE, complex |-> to_complex(r)]

\* what the Water arm does with the outcome of make_water
WaterMade(made) ==
    [state |-> made.state,
     response |-> IF made.ok
                  THEN CombineSuccess("Water")
                  ELSE CombineFailure(made.err, to_generic(made.r1),
                                      to_generic(made.r2)),
     calls |-> {"combinator"}]

\* a Water arm that gives the inputs back in the other order
CombineWater_SwapsInputs(st, comb, req) ==
    LET cell == full_cell(st)
    IN  IF cell /= None
        THEN WaterMade(make_water(comb, st, Min(cell), req.r1, req.r2))
        ELSE [state |-> st,
              response |-> CombineFailure(NoCellReason, to_generic(req.r2),
                                          to_generic(req.r1)),
              calls |-> {}]

\* a Water arm that reports a missing cell as a missing recipe
CombineWater_NoCellAsNoRecipe(st, comb, req) ==
    LET cell == full_cell(st)
    IN  IF cell /= None
        THEN WaterMade(make_water(comb, st, Min(cell), req.r1, req.r2))
        ELSE [state |-> st,
              response |-> CombineFailure(NoRecipeReason(req), to_generic(req.r1),
                                          to_generic(req.r2)),
              calls |-> {}]

\* a Water arm that looks the cell up with empty_cell instead of full_cell
CombineWater_UsesEmptyCell(st, comb, req) ==
    LET cell == empty_cell(st)
    IN  IF cell /= None
        THEN WaterMade(make_water(comb, st, Min(cell), req.r1, req.r2))
        ELSE [state |-> st,
              response |-> CombineFailure(NoCellReason, to_generic(req.r1),
                                          to_generic(req.r2)),
              calls |-> {}]

\* CombineResourceRequest, arm ComplexResourceRequest::Water
CombineWater(st, comb, req) ==
    LET cell == full_cell(st)
    IN  IF cell /= None
        THEN WaterMade(make_water(comb, st, Min(cell), req.r1, req.r2))
        ELSE [state |-> st,
              response |-> CombineFailure(NoCellReason, to_generic(req.r1),
                                          to_generic(req.r2)),
              calls |-> {}]

\* an arm for the other variants that uses up the cell it was handed
CombineOther_ConsumesCell(st, req) ==
    LET cell == full_cell(st)
    IN  [state |-> IF cell /= None THEN Discharge(st, Min(cell)) ELSE st,
         response |-> CombineFailure(NoRecipeReason(req), to_generic(req.r1),
                                     to_generic(req.r2)),
         calls |-> {}]

\* unreachable!("Water is handled above"): the handler aborts
Panic == [kind |-> "panic"]

\* CombineResourceRequest, arm `other`
CombineOther(st, req) ==
    IF req.variant = "Water"
    THEN [state |-> st, response |-> Panic, calls |-> {}]
    ELSE [state |-> st,
          response |-> CombineFailure(NoRecipeReason(req), to_generic(req.r1),
                                      to_generic(req.r2)),
          calls |-> {}]

\* a CombineResourceRequest arm that looks for the cell before the variant
CombineResource_CellFirst(st, comb, req) ==
    IF full_cell(st) = None
    THEN [state |-> st,
          response |-> CombineFailure(NoCellReason, to_generic(req.r1),
                                      to_generic(req.r2)),
          calls |-> {}]
    ELSE IF req.variant = "Water"
         THEN CombineWater(st, comb, req)
         ELSE CombineOther(st, req)

\* a CombineResourceRequest arm whose `other` pattern comes first
CombineResource_OtherFirst(st, comb, req) == CombineOther(st, req)

\* CombineResourceRequest arm
CombineResource(st, comb, req) ==
    IF req.variant = "Water"
    THEN CombineWater(st, comb, req)
    ELSE CombineOther(st, req)

\* for cell in state.cells_iter() { if cell.is_charged() { cnt += 1 } },
\* from cell i on
RECURSIVE CountCells(_, _, _)
CountCells(st, i, cnt) ==
    IF i \notin CellIndexes(st)
    THEN cnt
    ELSE CountCells(st, i + 1, IF st.energy_cells[i] THEN cnt + 1 ELSE cnt)

\* an AvailableEnergyCellRequest arm that counts the cells a sunray could
\* still charge
AvailableEnergyCell_CountsEmpty(st) ==
    [state |-> st,
     response |-> [kind |-> "AvailableEnergyCellResponse",
                   available_cells |->
                       Cardinality({i \in CellIndexes(st) : ~st.energy_cells[i]})],
     calls |-> {}]

\* AvailableEnergyCellRequest arm
AvailableEnergyCell(st) ==
    [state |-> st,
     response |-> [kind |-> "AvailableEnergyCellResponse",
                   available_cells |-> CountCells(st, 0, 0)],
     calls |-> {}]

\* a handle_asteroid that builds the rocket from cell 0 itself, without
\* asking the planet state whether its type may have one
handle_asteroid_BuildsFromCell(st) ==
    LET build == ~has_rocket(st)
        can   == build /\ st.energy_cells[0]
    IN  [state |-> IF can THEN Discharge(st, 0) ELSE [st EXCEPT !.rocket = FALSE],
         response |-> [kind |-> "Rocket",
                       rocket |-> IF can \/ st.rocket THEN Some("Rocket") ELSE None],
         calls |-> IF build THEN {"build_rocket", "take_rocket"}
                   ELSE {"take_rocket"}]

\* a handle_asteroid that calls build_rocket whether or not a rocket is ready
handle_asteroid_AlwaysBuilds(st) ==
    LET built == build_rocket(st, 0).state
        taken == take_rocket(built)
    IN  [state |-> taken.state,
         response |-> [kind |-> "Rocket", rocket |-> taken.ret],
         calls |-> {"build_rocket", "take_rocket"}]

\* a handle_asteroid that reports the rocket and leaves it in the slot
handle_asteroid_KeepsRocket(st) ==
    LET build == ~has_rocket(st)
        built == IF build THEN build_rocket(st, 0).state ELSE st
    IN  [state |-> built,
         response |-> [kind |-> "Rocket",
                       rocket |-> IF built.rocket THEN Some("Rocket") ELSE None],
         calls |-> IF build THEN {"build_rocket"} ELSE {}]

\* handle_asteroid: build on cell 0 unless a rocket is ready, then take
handle_asteroid(st) ==
    LET build == ~has_rocket(st)
        built == IF build THEN build_rocket(st, 0).state ELSE st
        taken == take_rocket(built)
    IN  [state |-> taken.state,
         response |-> [kind |-> "Rocket", rocket |-> taken.ret],
         calls |-> IF build THEN {"build_rocket", "take_rocket"}
                   ELSE {"take_rocket"}]

on_explorer_arrival(st) == [state |-> st, response |-> NoResponse, calls |-> {}]

on_explorer_departure(st) == [state |-> st, response |-> NoResponse, calls |-> {}]

\* an on_start that flips the flag
on_start_Toggles(stopped) == ~stopped

on_start(stopped) == FALSE

on_stop(stopped) == TRUE

ExplorerRequests ==
    {"SupportedResourceRequest", "SupportedCombinationRequest",
     "GenerateResourceRequest", "CombineResourceRequest",
     "AvailableEnergyCellRequest"}

\* a handle_explorer_msg whose SupportedCombinationRequest arm answers as the
\* SupportedResourceRequest arm does
handle_explorer_msg_MisroutesCombination(st, gen, comb, m) ==
    CASE m.kind = "SupportedResourceRequest" -> SupportedResource(st, gen)
      [] m.kind = "SupportedCombinationRequest" -> SupportedResource(st, gen)
      [] m.kind = "GenerateResourceRequest" -> GenerateResource(st, gen, m.resource)
      [] m.kind = "CombineResourceRequest" -> CombineResource(st, comb, m.req)
      [] m.kind = "AvailableEnergyCellRequest" -> AvailableEnergyCell(st)

\* handle_explorer_msg: the match over the explorer's message
handle_explorer_msg(st, gen, comb, m) ==
    CASE m.kind = "SupportedResourceRequest" -> SupportedResource(st, gen)
      [] m.kind = "SupportedCombinationRequest" -> SupportedCombination(st, comb)
      [] m.kind = "GenerateResourceRequest" -> GenerateResource(st, gen, m.resource)
      [] m.kind = "CombineResourceRequest" -> CombineResource(st, comb, m.req)
      [] m.kind = "AvailableEnergyCellRequest" -> AvailableEnergyCell(st)

\* a PlanetAI whose handlers return at once while the AI is stopped
PlanetAI_IdleWhileStopped(self, st, gen, comb, m) ==
    IF self
    THEN [state |-> st, response |-> NoResponse, calls |-> {}]
    ELSE CASE m.kind = "Sunray" -> handle_sunray(st)
           [] m.kind = "InternalStateRequest" -> handle_internal_state_req(st)
           [] m.kind \in ExplorerRequests -> handle_explorer_msg(st, gen, comb, m)
           [] m.kind = "Asteroid" -> handle_asteroid(st)
           [] m.kind = "ExplorerArrival" -> on_explorer_arrival(st)
           [] m.kind = "ExplorerDeparture" -> on_explorer_departure(st)

\* impl PlanetAI for Orbitron: the handler of message m, called on the AI
\* (self: its is_stopped) with the planet state and the two recipe sets.
\* Every handler receives self and none reads it.
PlanetAI(self, st, gen, comb, m) ==
    CASE m.kind = "Sunray" -> handle_sunray(st)
      [] m.kind = "InternalStateRequest" -> handle_internal_state_req(st)
      [] m.kind \in ExplorerRequests -> handle_explorer_msg(st, gen, comb, m)
      [] m.kind = "Asteroid" -> handle_asteroid(st)
      [] m.kind = "ExplorerArrival" -> on_explorer_arrival(st)
      [] m.kind = "ExplorerDeparture" -> on_explorer_departure(st)

(***************************************************************************)
(* The state machine                                                       *)
(***************************************************************************)

VARIABLES
    state,       \* the PlanetState the handlers receive
    generator,   \* the enabled generation set
    combinator,  \* the enabled combination set
    is_stopped,  \* Orbitron::is_stopped
    msg,         \* the message handled last
    response,    \* what its handler returned
    calls,       \* the collaborator operations its handler called
    before,      \* the PlanetState its handler received
    stopped_before, \* is_stopped when its handler was entered
    consumed     \* the requests served since the last Sunray that charged a cell

vars ==
    <<state, generator, combinator, is_stopped, msg, response, calls, before,
      stopped_before, consumed>>

NoMsg == [kind |-> "None"]

\* Orbitron::new, and the planet state and recipe sets its handlers are
\* handed: create_planet's (lib.rs: one cell, no rocket capability; main.rs:
\* the wider generation set), and planet states of the other shapes a
\* planet type can have (more cells, rocket capability)
Init ==
    /\ \E id \in PlanetIds, n \in 1 .. MaxCells, r \in BOOLEAN :
          state = NewPlanetState(id, n, r)
    /\ \E rules \in {<<LibGenRules, LibCombRules>>, <<MainGenRules, MainCombRules>>} :
          /\ generator = rules[1]
          /\ combinator = rules[2]
    /\ is_stopped = TRUE
    /\ msg = NoMsg
    /\ response = NoResponse
    /\ calls = {}
    /\ before = state
    /\ stopped_before = is_stopped
    /\ consumed = 0

\* the count of served requests stops here
MaxConsumed == 2

\* the handler returned a produced resource, or a rocket it built in the call
Consumes(result) ==
    \/ /\ result.response.kind = "GenerateResourceResponse"
       /\ result.response.resource /= None
    \/ /\ result.response.kind = "CombineResourceResponse"
       /\ result.response.ok
    \/ /\ result.response.kind = "Rocket"
       /\ "build_rocket" \in result.calls
       /\ result.response.rocket /= None

\* the handler's charge_cell charged a cell
Charges(st, result) ==
    /\ "charge_cell" \in result.calls
    /\ ChargedCount(result.state) > ChargedCount(st)

Consumed(n, st, result) ==
    IF Charges(st, result) THEN 0
    ELSE IF Consumes(result) /\ n < MaxConsumed THEN n + 1
    ELSE n

\* a handler's return that leaves the AI marked as running
Returns_MarksRunning(result) ==
    /\ before' = state
    /\ state' = result.state
    /\ response' = result.response
    /\ calls' = result.calls
    /\ stopped_before' = is_stopped
    /\ consumed' = Consumed(consumed, state, result)
    /\ is_stopped' = FALSE
    /\ UNCHANGED <<generator, combinator>>

\* the handler's effects on the planet state, and what it returned; the
\* handlers of messages assign nothing to self.is_stopped
Returns(result) ==
    /\ before' = state
    /\ state' = result.state
    /\ response' = result.response
    /\ calls' = result.calls
    /\ stopped_before' = is_stopped
    /\ consumed' = Consumed(consumed, state, result)
    /\ UNCHANGED <<generator, combinator, is_stopped>>

Sunray ==
    /\ msg' = [kind |-> "Sunray"]
    /\ Returns(PlanetAI(is_stopped, state, generator, combinator,
                        [kind |-> "Sunray"]))

InternalStateRequest ==
    /\ msg' = [kind |-> "InternalStateRequest"]
    /\ Returns(PlanetAI(is_stopped, state, generator, combinator,
                        [kind |-> "InternalStateRequest"]))

SupportedResourceRequest ==
    /\ msg' = [kind |-> "SupportedResourceRequest"]
    /\ Returns(PlanetAI(is_stopped, state, generator, combinator,
                        [kind |-> "SupportedResourceRequest"]))

SupportedCombinationRequest ==
    /\ msg' = [kind |-> "SupportedCombinationRequest"]
    /\ Returns(PlanetAI(is_stopped, state, generator, combinator,
                        [kind |-> "SupportedCombinationRequest"]))

GenerateResourceRequest ==
    \E resource \in BasicResourceType :
        /\ msg' = [kind |-> "GenerateResourceRequest", resource |-> resource]
        /\ Returns(PlanetAI(is_stopped, state, generator, combinator,
                            [kind |-> "GenerateResourceRequest", resource |-> resource]))

CombineResourceRequest ==
    \E req \in ComplexResourceRequest :
        /\ msg' = [kind |-> "CombineResourceRequest", req |-> req]
        /\ Returns(PlanetAI(is_stopped, state, generator, combinator,
                            [kind |-> "CombineResourceRequest", req |-> req]))

AvailableEnergyCellRequest ==
    /\ msg' = [kind |-> "AvailableEnergyCellRequest"]
    /\ Returns(PlanetAI(is_stopped, state, generator, combinator,
                        [kind |-> "AvailableEnergyCellRequest"]))

Asteroid ==
    /\ msg' = [kind |-> "Asteroid"]
    /\ Returns(PlanetAI(is_stopped, state, generator, combinator,
                        [kind |-> "Asteroid"]))

ExplorerArrival ==
    /\ msg' = [kind |-> "ExplorerArrival"]
    /\ Returns(PlanetAI(is_stopped, state, generator, combinator,
                        [kind |-> "ExplorerArrival"]))

ExplorerDeparture ==
    /\ msg' = [kind |-> "ExplorerDeparture"]
    /\ Returns(PlanetAI(is_stopped, state, generator, combinator,
                        [kind |-> "ExplorerDeparture"]))

StartPlanetAI ==
    /\ msg' = [kind |-> "StartPlanetAI"]
    /\ is_stopped' = on_start(is_stopped)
    /\ response' = NoResponse
    /\ calls' = {}
    /\ before' = state
    /\ stopped_before' = is_stopped
    /\ UNCHANGED <<state, generator, combinator, consumed>>

StopPlanetAI ==
    /\ msg' = [kind |-> "StopPlanetAI"]
    /\ is_stopped' = on_stop(is_stopped)
    /\ response' = NoResponse
    /\ calls' = {}
    /\ before' = state
    /\ stopped_before' = is_stopped
    /\ UNCHANGED <<state, generator, combinator, consumed>>

Next ==
    \/ Sunray
    \/ InternalStateRequest
    \/ SupportedResourceRequest
    \/ SupportedCombinationRequest
    \/ GenerateResourceRequest
    \/ CombineResourceRequest
    \/ AvailableEnergyCellRequest
    \/ Asteroid
    \/ ExplorerArrival
    \/ ExplorerDeparture
    \/ StartPlanetAI
    \/ StopPlanetAI

Spec == Init /\ [][Next]_vars

\* the number of energy cells of a planet of type B
TypeBCells == 1

\* a create_planet that hands over the recipe sets main.rs lists
create_planet_MainRules(planet_id) ==
    [state |-> NewPlanetState(planet_id, TypeBCells, FALSE),
     generator |-> MainGenRules,
     combinator |-> MainCombRules,
     is_stopped |-> TRUE]

\* create_planet of lib.rs: a planet of type B (one cell, no rocket), the
\* recipe sets, and a new Orbitron
create_planet(planet_id) ==
    [state |-> NewPlanetState(planet_id, TypeBCells, FALSE),
     generator |-> LibGenRules,
     combinator |-> LibCombRules,
     is_stopped |-> TRUE]

InitCreatePlanet ==
    /\ \E planet_id \in PlanetIds :
          LET planet == create_planet(planet_id)
          IN  /\ state = planet.state
              /\ generator = planet.generator
              /\ combinator = planet.combinator
              /\ is_stopped = planet.is_stopped
    /\ msg = NoMsg
    /\ response = NoResponse
    /\ calls = {}
    /\ before = state
    /\ stopped_before = is_stopped
    /\ consumed = 0

SpecCreatePlanet == InitCreatePlanet /\ [][Next]_vars

\* The planet states a handler can be handed: any charge of the cells, and a
\* rocket in the slot only where the type permits one.
PlanetStates ==
    { [id |-> id, energy_cells |-> cells, rocket |-> r, can_have_rocket |-> c] :
        id \in PlanetIds,
        cells \in UNION { [0 .. (n - 1) -> BOOLEAN] : n \in 1 .. MaxCells },
        <<r, c>> \in {<<FALSE, FALSE>>, <<FALSE, TRUE>>, <<TRUE, TRUE>>} }

\* the handlers as functions of the state they are handed: the first
\* message finds any planet state
InitAnyPlanetState ==
    /\ state \in PlanetStates
    /\ \E rules \in {<<LibGenRules, LibCombRules>>, <<MainGenRules, MainCombRules>>} :
          /\ generator = rules[1]
          /\ combinator = rules[2]
    /\ is_stopped = TRUE
    /\ msg = NoMsg
    /\ response = NoResponse
    /\ calls = {}
    /\ before = state
    /\ stopped_before = is_stopped
    /\ consumed = 0

SpecAnyPlanetState == InitAnyPlanetState /\ [][Next]_vars

(***************************************************************************)
(* Properties.  `before` is the planet state the handler of `msg` received,*)
(* `state` the one it left, `response` what it returned.                   *)
(***************************************************************************)

Handled(kind) == msg.kind = kind

\* every cell charged before the message is still charged after it
ChargedCellsKept ==
    \A i \in CellIndexes(before) : before.energy_cells[i] => state.energy_cells[i]

CellsUnchanged == state.energy_cells = before.energy_cells

\* the cell full_cell located for the handler is empty now
UsedCellEmpty ==
    /\ full_cell(before) /= None
    /\ ~state.energy_cells[Min(full_cell(before))]

GenerateSucceeded == Handled("GenerateResourceRequest") /\ response.resource /= None

GenerateFailed == Handled("GenerateResourceRequest") /\ response.resource = None

CombineSucceeded == Handled("CombineResourceRequest") /\ response.ok

CombineFailed == Handled("CombineResourceRequest") /\ ~response.ok

RocketBuilt ==
    Handled("Asteroid") /\ ~before.rocket /\ response.rocket /= None

\* C1: the number of charged cells increases only in a step that handles a
\* Sunray, decreases only in a step where a generate, combine or rocket-build
\* operation succeeded, and is unchanged by every failed generate or combine
\* request.
C1_CellConservation ==
    /\ ChargedCount(state) > ChargedCount(before) => Handled("Sunray")
    /\ ChargedCount(state) < ChargedCount(before) =>
          GenerateSucceeded \/ CombineSucceeded \/ RocketBuilt
    /\ GenerateFailed \/ CombineFailed => ChargedCount(state) = ChargedCount(before)

\* a failed combine request for an unsupported type, handled with a charged
\* cell that is still charged
C1_Witness ==
    /\ CombineFailed
    /\ msg.req.variant \notin combinator
    /\ ChargedCount(before) > 0
    /\ ChargedCount(state) = ChargedCount(before)

\* C2: a GenerateResourceRequest for a type of the enabled generation set,
\* handled while a cell is charged and the generator's recipe succeeds on
\* that cell, returns the requested resource and leaves the used cell empty.
C2_GenerateEnabledType ==
    ( /\ Handled("GenerateResourceRequest")
      /\ msg.resource \in generator
      /\ full_cell(before) /= None
      /\ make_basic(generator, before, Min(full_cell(before)), msg.resource).ok )
    => /\ response.resource = Some(to_basic(msg.resource))
       /\ UsedCellEmpty

\* C3: a GenerateResourceRequest for a type outside the enabled generation
\* set returns no resource, and every cell charged before it is still charged.
C3_GenerateUnsupportedType ==
    (Handled("GenerateResourceRequest") /\ msg.resource \notin generator)
    => /\ response.resource = None
       /\ ChargedCellsKept

\* an unsupported type requested while a cell was charged
C3_Witness ==
    /\ Handled("GenerateResourceRequest")
    /\ msg.resource \notin generator
    /\ full_cell(before) /= None
    /\ response.resource = None
    /\ full_cell(state) /= None

\* C4: the two resources a failed CombineResourceRequest carries back are
\* the request's two inputs, in the same order.
C4_InputsReturned ==
    CombineFailed
    => /\ response.r1 = to_generic(msg.req.r1)
       /\ response.r2 = to_generic(msg.req.r2)

\* a failed request whose two inputs differ, so that their order shows
C4_Witness ==
    /\ CombineFailed
    /\ msg.req.r1 /= msg.req.r2
    /\ response.r1 = to_generic(msg.req.r1)
    /\ response.r1 /= response.r2

WaterWithoutCell ==
    /\ Handled("CombineResourceRequest")
    /\ msg.req.variant = "Water"
    /\ "Water" \in combinator
    /\ full_cell(before) = None

\* C5 as stated: a CombineResourceRequest for Water handled while no cell is
\* charged fails with the reason "no charged energy cell available", calls
\* no combinator and leaves every cell and the rocket slot unchanged.
C5_NoCellReasonAsStated ==
    WaterWithoutCell
    => /\ ~response.ok
       /\ response.reason = <<"no charged energy cell available">>
       /\ "combinator" \notin calls
       /\ state = before

\* C5, amended: as above, the reason being "No charged energy cell found".
C5_NoCellFailure ==
    WaterWithoutCell
    => /\ ~response.ok
       /\ response.reason = <<"No charged energy cell found">>
       /\ "combinator" \notin calls
       /\ state = before

\* Water requested while no cell was charged: refused, nothing changed
C5_Witness ==
    /\ WaterWithoutCell
    /\ ~response.ok
    /\ state = before

\* the reason text holds the name of the requested variant
ReasonNames(reason, variant) == \E k \in DOMAIN reason : reason[k] = variant

\* C6: a CombineResourceRequest for a type outside the enabled combination
\* set fails, charged cell or not, with a reason that names the requested
\* type and is not the no-charged-cell reason, and changes no cell's charge.
C6_UnsupportedCombination ==
    (Handled("CombineResourceRequest") /\ msg.req.variant \notin combinator)
    => /\ ~response.ok
       /\ ReasonNames(response.reason, msg.req.variant)
       /\ response.reason /= NoCellReason
       /\ CellsUnchanged

\* Diamond requested while no cell is charged: the case where the two
\* failures could be confused
C6_Witness ==
    /\ Handled("CombineResourceRequest")
    /\ msg.req.variant = "Diamond"
    /\ msg.req.variant \notin combinator
    /\ full_cell(before) = None
    /\ ~response.ok

\* C7: a CombineResourceRequest for Water handled while a cell is charged,
\* when the combinator accepts the inputs on that cell, returns the complex
\* resource Water and leaves the used cell empty.
C7_WaterCombined ==
    ( /\ Handled("CombineResourceRequest")
      /\ msg.req.variant = "Water"
      /\ full_cell(before) /= None
      /\ make_water(combinator, before, Min(full_cell(before)),
                    msg.req.r1, msg.req.r2).ok )
    => /\ response.ok
       /\ response.complex = to_complex("Water")
       /\ UsedCellEmpty

\* Water combined on a planet where another cell was still empty
C7_Witness ==
    /\ Handled("CombineResourceRequest")
    /\ msg.req.variant = "Water"
    /\ full_cell(before) /= None
    /\ empty_cell(before) /= None
    /\ response.ok
    /\ UsedCellEmpty

\* C8: a Sunray handled while every cell is charged leaves every cell
\* charged and is answered with a SunrayAck carrying the planet's identity.
C8_RejectedSunrayAcked ==
    (Handled("Sunray") /\ empty_cell(before) = None)
    => /\ empty_cell(state) = None
       /\ response = [kind |-> "SunrayAck", planet_id |-> state.id]

\* C9: a Sunray handled while a cell is empty charges exactly one cell that
\* was empty, changes no other cell and not the rocket slot, and returns no
\* response.
C9_SunrayChargesOneCell ==
    (Handled("Sunray") /\ empty_cell(before) /= None)
    => /\ \E i \in CellIndexes(before) :
             /\ ~before.energy_cells[i]
             /\ state = [before EXCEPT !.energy_cells[i] = TRUE]
       /\ response = NoResponse

\* a Sunray handled while two cells were empty
C9_Witness ==
    /\ Handled("Sunray")
    /\ Cardinality({i \in CellIndexes(before) : ~before.energy_cells[i]}) > 1
    /\ ChargedCount(state) = ChargedCount(before) + 1

\* C10: on a planet whose type permits no rocket, handle_asteroid returns no
\* rocket whatever the cells' charge, and every cell charged before it is
\* still charged.
C10_NoRocketType ==
    (Handled("Asteroid") /\ ~before.can_have_rocket)
    => /\ response.rocket = None
       /\ ChargedCellsKept

\* an Asteroid on such a planet while cell 0 was charged
C10_Witness ==
    /\ Handled("Asteroid")
    /\ ~before.can_have_rocket
    /\ before.energy_cells[0]
    /\ response.rocket = None
    /\ state.energy_cells[0]

\* C11: when the rocket slot is occupied as handle_asteroid is called, the
\* handler returns that rocket, makes no build attempt and leaves the charge
\* of every cell unchanged.
C11_PreBuiltRocket ==
    (Handled("Asteroid") /\ before.rocket)
    => /\ response.rocket = Some("Rocket")
       /\ "build_rocket" \notin calls
       /\ CellsUnchanged

\* an Asteroid that found a rocket in the slot and cell 0 charged
C11_Witness ==
    /\ Handled("Asteroid")
    /\ before.rocket
    /\ before.energy_cells[0]
    /\ response.rocket /= None
    /\ state.energy_cells[0]

\* nothing of the planet, and not the lifecycle flag, changed
NothingChanged == state = before /\ is_stopped = stopped_before

\* C12: SupportedResourceRequest is answered with exactly the configured
\* generation set and SupportedCombinationRequest with exactly the
\* configured combination set, whatever the cells' charge, the rocket slot
\* and the lifecycle flag, and neither changes any state.
C12_RecipeSetFidelity ==
    /\ Handled("SupportedResourceRequest")
          => response.resource_list = generator /\ NothingChanged
    /\ Handled("SupportedCombinationRequest")
          => response.combination_list = combinator /\ NothingChanged

\* the generation set of main.rs asked for on a running planet with a
\* charged cell
C12_Witness ==
    /\ Handled("SupportedResourceRequest")
    /\ ~is_stopped
    /\ ChargedCount(before) > 0
    /\ generator = MainGenRules
    /\ response.resource_list = MainGenRules

\* C13: AvailableEnergyCellRequest is answered with the number of cells
\* charged at the moment of the request and changes no cell, not the rocket
\* slot and not the lifecycle flag.
C13_AvailableCells ==
    Handled("AvailableEnergyCellRequest")
    => /\ response.available_cells = ChargedCount(before)
       /\ NothingChanged

\* the request on a planet with one cell charged and one empty
C13_Witness ==
    /\ Handled("AvailableEnergyCellRequest")
    /\ before.energy_cells = (0 :> FALSE @@ 1 :> TRUE)
    /\ response.available_cells = 1

\* C14: handle_internal_state_req returns a snapshot whose identity,
\* per-cell charge and rocket presence are those of the planet state at the
\* request, and changes nothing, while stopped as while running.
C14_InternalState ==
    Handled("InternalStateRequest")
    => /\ response.kind = "DummyPlanetState"
       /\ response.dummy.id = before.id
       /\ response.dummy.energy_cells = before.energy_cells
       /\ response.dummy.has_rocket = before.rocket
       /\ NothingChanged

\* the request on a stopped planet that holds a rocket and a charged cell
C14_Witness ==
    /\ Handled("InternalStateRequest")
    /\ is_stopped
    /\ before.rocket
    /\ ChargedCount(before) > 0
    /\ response.dummy.has_rocket

\* the messages whose handlers take decisions
DecisionMessages ==
    {"Sunray", "Asteroid", "SupportedResourceRequest", "SupportedCombinationRequest",
     "GenerateResourceRequest", "CombineResourceRequest",
     "AvailableEnergyCellRequest"}

\* C15: a Sunray, an explorer request or an Asteroid handled while the AI is
\* stopped charges and consumes no cell, builds and takes no rocket and
\* produces no resource.
C15_StoppedSuppresses ==
    (stopped_before /\ msg.kind \in DecisionMessages)
    => /\ state = before
       /\ Handled("GenerateResourceRequest") => response.resource = None
       /\ Handled("CombineResourceRequest") => ~response.ok
       /\ Handled("Asteroid") => response.rocket = None

\* C16: the AI is created stopped; a start signal leaves it running and a
\* stop signal leaves it stopped, whatever the flag was; neither changes the
\* planet state nor produces a response.
C16_LifecycleGate ==
    /\ msg = NoMsg => is_stopped
    /\ Handled("StartPlanetAI")
          => ~is_stopped /\ state = before /\ response = NoResponse
    /\ Handled("StopPlanetAI")
          => is_stopped /\ state = before /\ response = NoResponse
    /\ (Handled("StartPlanetAI") /\ ~stopped_before) => is_stopped = stopped_before
    /\ (Handled("StopPlanetAI") /\ stopped_before) => is_stopped = stopped_before

\* a start signal handled while already running
C16_Witness ==
    /\ Handled("StartPlanetAI")
    /\ ~stopped_before
    /\ ~is_stopped
    /\ ChargedCount(state) > 0

\* C17: the planet create_planet returns has one of the given identities,
\* the shape of type B (exactly one energy cell, empty; no rocket capability,
\* empty rocket slot), the generation set {Hydrogen, Oxygen} and the
\* combination set {Water}; no message changes its identity, its type's
\* shape, its cell count or its recipe sets.
C17_CreatedPlanet ==
    /\ /\ state.id \in PlanetIds
       /\ state.energy_cells = (0 :> FALSE)
       /\ ~state.can_have_rocket
       /\ ~state.rocket
       /\ generator = {"Hydrogen", "Oxygen"}
       /\ combinator = {"Water"}
    /\ [][ /\ state'.id = state.id
           /\ state'.can_have_rocket = state.can_have_rocket
           /\ DOMAIN state'.energy_cells = DOMAIN state.energy_cells
           /\ generator' = generator
           /\ combinator' = combinator ]_vars

\* planet 42 after it charged its cell and made a resource of it
C17_Witness ==
    /\ GenerateSucceeded
    /\ state.id = 42
    /\ DOMAIN state.energy_cells = {0}
    /\ ~state.can_have_rocket
    /\ generator = LibGenRules
    /\ combinator = LibCombRules

ResponseKinds ==
    {"None", "DummyPlanetState", "SupportedResourceResponse",
     "SupportedCombinationResponse", "GenerateResourceResponse",
     "CombineResourceResponse", "AvailableEnergyCellResponse", "Rocket"}

\* C18: every handler completes with a value, for every message in every
\* reachable state; the unreachable!() branch of the combine arm is never
\* taken.
C18_NoHandlerAborts ==
    /\ response /= Panic
    /\ response.kind \in ResponseKinds

\* a Water request that failed as a value
C18_Witness ==
    /\ CombineFailed
    /\ msg.req.variant = "Water"
    /\ response.kind = "CombineResourceResponse"

C20_SlotEmptyAfterAsteroid ==
    Handled("Asteroid") => ~state.rocket

\* an Asteroid answered with a rocket built during the call
C20_Witness ==
    /\ Handled("Asteroid")
    /\ ~before.rocket
    /\ "build_rocket" \in calls
    /\ response.rocket /= None
    /\ ~state.rocket

\* a request was served from a cell: a resource produced, or a rocket built
Served == GenerateSucceeded \/ CombineSucceeded \/ RocketBuilt

\* a request the handlers serve when they find a charged cell
Servable ==
    \/ /\ Handled("GenerateResourceRequest")
       /\ msg.resource \in {"Hydrogen", "Oxygen"} \cap generator
    \/ /\ Handled("CombineResourceRequest")
       /\ msg.req.variant = "Water"
       /\ "Water" \in combinator
    \/ /\ Handled("Asteroid")
       /\ before.can_have_rocket
       /\ ~before.rocket

\* C21: on a planet with a single cell, at most one request among generate,
\* combine and rocket-build is served since the last Sunray that charged the
\* cell, whatever the order of the orchestrator's and the explorers'
\* messages; the request served is the first one to arrive that the handlers
\* can serve: it found the cell charged and left it empty, and a servable
\* request that finds the cell charged is served.
C21_NoDoubleConsumption ==
    CellIndexes(state) = {0}
    => /\ consumed <= 1
       /\ Served => before.energy_cells[0] /\ ~state.energy_cells[0]
       /\ (Servable /\ before.energy_cells[0]) => Served

\* a servable request refused because an earlier request took the charge
C21_Witness ==
    /\ CellIndexes(state) = {0}
    /\ consumed = 1
    /\ Servable
    /\ ~before.energy_cells[0]
    /\ ~Served

\* C22: a GenerateResourceRequest handled while no cell is charged is
\* answered with a GenerateResourceResponse without a resource, for every
\* requested type, enabled or not, and changes nothing.
C22_GenerateWithoutCell ==
    (Handled("GenerateResourceRequest") /\ full_cell(before) = None)
    => /\ response.kind = "GenerateResourceResponse"
       /\ response.resource = None
       /\ NothingChanged

\* an enabled type requested while no cell was charged
C22_Witness ==
    /\ Handled("GenerateResourceRequest")
    /\ msg.resource \in {"Hydrogen", "Oxygen"} \cap generator
    /\ full_cell(before) = None
    /\ response.resource = None
    /\ state = before

ResponseVariant(kind) ==
    CASE kind = "SupportedResourceRequest" -> "SupportedResourceResponse"
      [] kind = "SupportedCombinationRequest" -> "SupportedCombinationResponse"
      [] kind = "GenerateResourceRequest" -> "GenerateResourceResponse"
      [] kind = "CombineResourceRequest" -> "CombineResourceResponse"
      [] kind = "AvailableEnergyCellRequest" -> "AvailableEnergyCellResponse"

\* C23: every explorer request is answered with one response, of the variant
\* that matches the request; an explorer's arrival and an explorer's
\* departure are answered with nothing and change nothing.
C23_Router ==
    /\ \A kind \in ExplorerRequests :
          Handled(kind) => response.kind = ResponseVariant(kind)
    /\ (Handled("ExplorerArrival") \/ Handled("ExplorerDeparture"))
          => response = NoResponse /\ NothingChanged

\* a SupportedCombinationRequest answered with its own variant, on a planet
\* whose two recipe sets differ
C23_Witness ==
    /\ Handled("SupportedCombinationRequest")
    /\ response.kind = "SupportedCombinationResponse"
    /\ response.combination_list = combinator
    /\ generator /= combinator

LifecycleSignals == {"StartPlanetAI", "StopPlanetAI"}

\* C24: the lifecycle flag is the same after every handle_sunray,
\* handle_internal_state_req, handle_explorer_msg, handle_asteroid,
\* on_explorer_arrival and on_explorer_departure; on_start and on_stop
\* change no cell's charge, not the rocket slot, and nothing else of the
\* planet state.
C24_FlagFrame ==
    /\ msg.kind \notin LifecycleSignals => is_stopped = stopped_before
    /\ msg.kind \in LifecycleSignals => state = before

\* a request served while the AI was running: the cell consumed, the flag
\* as it was
C24_Witness ==
    /\ Served
    /\ state /= before
    /\ ~stopped_before
    /\ ~is_stopped

\* the messages the handlers' answers are compared on
FlagBlindMessages == {"Sunray", "Asteroid", "InternalStateRequest"} \cup ExplorerRequests

GenerateHydrogenRequest ==
    /\ msg' = [kind |-> "GenerateResourceRequest", resource |-> "Hydrogen"]
    /\ Returns(PlanetAI(is_stopped, state, generator, combinator,
                        [kind |-> "GenerateResourceRequest", resource |-> "Hydrogen"]))

\* the planet of create_planet, where the runtime keeps delivering sunrays
\* and requests for Hydrogen
SpecFairDelivery ==
    /\ InitCreatePlanet
    /\ [][Next]_vars
    /\ WF_vars(Sunray)
    /\ WF_vars(GenerateHydrogenRequest)

Produced == GenerateSucceeded \/ CombineSucceeded

====
